---- MODULE Spec2Model ----
(***************************************************************************)
(* The quiz session of PrashnAi, in its two variants: src/app.py (stores   *)
(* store-questions, store-order, store-index, store-history; callbacks     *)
(* load_or_reset, display_question, main_update, reveal_answer) and        *)
(* src/app_simple.py (stores questions-store, order-store, index-store,    *)
(* history-store; callbacks load_quiz, display_question, handle_actions).  *)
(* A behaviour fixes the variant in its first state (app) and then runs    *)
(* that variant's callbacks, one user action at a time.                    *)
(*                                                                         *)
(* Python values: lists are sequences (Python index i is TLA+ index i+1),  *)
(* None and the empty string are both "" (the code only tests them with    *)
(* `not x`), a Dash store holding None is the empty sequence (the code     *)
(* only tests it with `not x` / `x or []`).                                *)
(***************************************************************************)
EXTENDS Integers, Sequences, FiniteSets, TLC

VARIABLES
    app,        \* which variant runs: "app" (app.py) or "simple" (app_simple.py)
    questions,  \* store-questions / questions-store
    order,      \* store-order / order-store
    index,      \* store-index / index-store
    history,    \* store-history / history-store
    feedback,   \* the feedback component's children
    raised,     \* the last callback raised a Python exception (Dash answers 500, no output changes)
    trigger,    \* the last user action: the triggering input and what the callback read with it
    tick,       \* parity of the number of user actions so far
    nexts,      \* Next clicks since the stores were last (re)loaded
    pending,    \* requests of the last user action that have not yet written their outputs
    call,       \* a call of one of the parsing and sampling functions: the function and its arguments
    result      \* what that call returned or raised (NotReturned before it ran)

vars == <<app, questions, order, index, history, feedback, raised, trigger, tick, nexts, pending,
          call, result>>

stores == <<questions, order, index, history>>

-----------------------------------------------------------------------------
(* Bounds of the model. *)

\* Longest question set read from a file or an upload.
MaxQuestions == 2
\* Most answer events app.py's history holds before Submit is no longer clicked.
MaxHistory == 2
\* Most Next clicks after one load.
MaxNexts == 3
\* Most blocks in a quiz text.
MaxBlocks == 3
\* Largest question number written in a quiz text with repeated numbers.
MaxOrdinal == 2
\* Largest max_questions tried below the default.
MaxCap == 2
\* Longest list sampled from, and largest count asked for, with every outcome
\* of the random source followed.
MaxPopulation == 3
\* Most tokens of a stem normalize_stem is called with.
MaxTokens == 3

-----------------------------------------------------------------------------
(* Python lists. *)

None == ""

\* seq[i] raises IndexError unless -len(seq) <= i < len(seq).
InRange(seq, i) == (-Len(seq) <= i) /\ (i < Len(seq))

\* seq[i] for an i in range; a negative i counts from the end.
At(seq, i) == IF i >= 0 THEN seq[i + 1] ELSE seq[Len(seq) + i + 1]

\* list(range(n))
range(n) == [k \in 1..n |-> k - 1]

Min(a, b) == IF a <= b THEN a ELSE b

\* x[i], x[j] = x[j], x[i]
Swap(x, i, j) == [x EXCEPT ![i + 1] = x[j + 1], ![j + 1] = x[i + 1]]

\* random.shuffle(x): for i in reversed(range(1, len(x))): j = randbelow(i+1); swap x[i], x[j].
\* draws[k] is the j drawn at i = len(x) - k.
RECURSIVE ShuffleFrom(_, _, _)
ShuffleFrom(x, draws, k) ==
    IF k > Len(draws) THEN x
    ELSE ShuffleFrom(Swap(x, Len(x) - k, draws[k]), draws, k + 1)

shuffle(x, draws) == ShuffleFrom(x, draws, 1)

\* What random.Random(42) draws while shuffling a list of n elements (CPython's
\* Mersenne Twister seeded with 42: randbelow(n), randbelow(n-1), .., randbelow(2)).
Random42(n) ==
    CASE n <= 1 -> <<>>
      [] n = 2 -> <<0>>
      [] n = 3 -> <<2, 0>>
      [] n = 4 -> <<0, 0, 1>>
      [] n = 5 -> <<0, 0, 2, 1>>
      [] n = 6 -> <<5, 0, 0, 2, 1>>

\* What the process-wide random source may draw while shuffling n elements.
RandomDraws(n) ==
    IF n <= 1 THEN {<<>>}
    ELSE {d \in [1..(n - 1) -> 0..(n - 1)] : \A k \in 1..(n - 1) : d[k] <= n - k}

-----------------------------------------------------------------------------
(* Question records. *)

Labels == {"A", "B", "C", "D"}

\* parse_quiz_text(SAMPLE_TEXT, dedupe=True): Q4 and Q5 repeat the stems of Q2
\* and Q3, so three records are left (stem_raw, which no callback reads, is left out).
DEFAULT_QUESTIONS ==
    << [qnum |-> 1, stem |-> "Which mineral primarily strengthens bone?",
        options |-> [A |-> "Sodium", B |-> "Calcium", C |-> "Potassium", D |-> "Iron"],
        answer |-> "B"],
       [qnum |-> 2, stem |-> "Rising T3 / T4 typically causes pituitary TSH to:",
        options |-> [A |-> "Increase", B |-> "Decrease", C |-> "No change", D |-> "Oscillate"],
        answer |-> "B"],
       [qnum |-> 3, stem |-> "Which ion binds troponin to initiate contraction?",
        options |-> [A |-> "Na+", B |-> "K+", C |-> "Ca2+", D |-> "Cl-"],
        answer |-> "C"] >>

\* The k-th block of a quiz file ("Qk: Stem .. A) a B) b C) c D) d Answer: ..").
FileRecord(k) ==
    [qnum |-> k,
     stem |-> CASE k = 1 -> "Stem one" [] k = 2 -> "Stem two"
                [] k = 3 -> "Stem three" [] k = 4 -> "Stem four",
     options |-> [A |-> "a", B |-> "b", C |-> "c", D |-> "d"],
     answer |-> CASE k = 1 -> "B" [] k = 2 -> "C" [] k = 3 -> "A" [] k = 4 -> "D"]

\* What parse_quiz_text returns for a file of n blocks (none when nothing matches).
QuestionSets == { [k \in 1..n |-> FileRecord(k)] : n \in 0..MaxQuestions }

\* A text source (an upload, a selected file): absent or empty, or a text with
\* the question set parse_quiz_text reads from it.
NoText == [present |-> FALSE, q |-> <<>>]
Texts == {NoText} \cup { [present |-> TRUE, q |-> s] : s \in QuestionSets }

\* The labels Submit is clicked with (None: no radio item chosen).
Chosen == {None, "B", "C"}

-----------------------------------------------------------------------------
(* Callback results. *)

Msg(m, a, t) == [msg |-> m, answer |-> a, text |-> t]

no_update == Msg("no_update", "", "")

\* The written value of an output: a no_update leaves the component as it is.
Written(old, new) == IF new = no_update THEN old ELSE new

Ret(f, h, i) == [raised |-> FALSE, feedback |-> f, history |-> h, index |-> i]

\* An exception in a callback: Dash writes no output.
Raise(h, i) == [raised |-> TRUE, feedback |-> no_update, history |-> h, index |-> i]

-----------------------------------------------------------------------------
(* src/app.py *)

\* load_or_reset, lines 277-322: the question set a trigger loads. `upload` is
\* the decoded upload, `file` the text of the selected file (NoText when there
\* is none, when it cannot be read, or when it is empty).
loaded_questions(trig, upload, file) ==
    IF trig \in {"reset-btn", "load-default-btn"} THEN DEFAULT_QUESTIONS
    ELSE LET text == IF upload.present /\ trig = "upload" THEN upload
                     ELSE IF file.present /\ trig \in {"file-dropdown", "load-btn"} THEN file
                     ELSE NoText
         IN  IF text.present THEN text.q ELSE DEFAULT_QUESTIONS

\* build_order with the shuffle option not looked at.
build_order_always_shuffled(q, shuffle_opt) ==
    shuffle(range(Len(q)), Random42(Len(q)))

\* build_order with a shuffle that depends on the answers given before.
build_order_session_seeded(q, shuffle_opt) ==
    IF shuffle_opt
    THEN shuffle(range(Len(q)),
                 IF feedback.msg = "Correct! The answer is" THEN [k \in 1..(Len(q) - 1) |-> 0]
                 ELSE Random42(Len(q)))
    ELSE range(Len(q))

\* load_or_reset, lines 324-328: order = list(range(len(q))), shuffled by
\* random.Random(42) when the shuffle option is on.
build_order(q, shuffle_opt) ==
    IF shuffle_opt THEN shuffle(range(Len(q)), Random42(Len(q))) ELSE range(Len(q))

\* load_or_reset: return q, order, 0, [], status (the status line is text only).
load_or_reset(trig, upload, file, shuffle_opt) ==
    LET q == loaded_questions(trig, upload, file)
    IN  [questions |-> q, order |-> build_order(q, shuffle_opt), index |-> 0, history |-> <<>>]

NoQuestion == [kind |-> "", n |-> 0, of |-> 0]

\* display_question: what the question panel shows for the stores.
display_question(qs, ord, idx) ==
    IF qs = <<>>
    THEN [text |-> "No questions loaded", options |-> {}, progress |-> NoQuestion, raised |-> FALSE]
    ELSE IF idx >= Len(ord)
    THEN [text |-> "Quiz Complete!", options |-> {},
          progress |-> [kind |-> "Completed", n |-> Len(ord), of |-> Len(ord)], raised |-> FALSE]
    ELSE IF ~InRange(ord, idx) \/ ~InRange(qs, At(ord, idx))
    THEN [text |-> "", options |-> {}, progress |-> NoQuestion, raised |-> TRUE]
    ELSE [text |-> At(qs, At(ord, idx)).stem, options |-> Labels,
          progress |-> [kind |-> "Question", n |-> idx + 1, of |-> Len(ord)], raised |-> FALSE]

\* add_to_history with the new entry put first.
add_to_history_in_front(h, e) == <<e>> \o h

\* main_update, line 393 (handle_actions, line 493): history + [entry].
add_to_history(h, e) == h \o <<e>>

\* no_answer without its `not chosen`.
no_answer_chosen_unchecked(chosen, qs, ord, i) == qs = <<>> \/ ord = <<>>

\* main_update, line 385: not chosen or not questions or not order or index is None.
no_answer(chosen, qs, ord, i) == chosen = None \/ qs = <<>> \/ ord = <<>>

\* answer_event with the position written as the question's index.
answer_event_unresolved(i, ord, chosen, is_correct) ==
    [idx |-> i, q_idx |-> i, chosen |-> chosen, correct |-> is_correct]

\* answer_event with the position and the question's index counted from 1.
answer_event_one_based(i, ord, chosen, is_correct) ==
    [idx |-> i + 1, q_idx |-> At(ord, i) + 1, chosen |-> chosen, correct |-> is_correct]

\* main_update, lines 393-398: the history entry of a submitted answer.
answer_event(i, ord, chosen, is_correct) ==
    [idx |-> i, q_idx |-> At(ord, i), chosen |-> chosen, correct |-> is_correct]

\* main_update, line 410: new_index = (index or 0) + 1.
new_index(i, ord) == i + 1

\* reset_outputs with the history it was sent returned.
reset_outputs_stale_history(h, i) == Ret(Msg("Reset", "", ""), h, 0)

\* reset_outputs with the index it was sent returned.
reset_outputs_stale_index(h, i) == Ret(Msg("Reset", "", ""), <<>>, i)

\* main_update, line 414: the Reset branch's history and index.
reset_outputs(h, i) == Ret(Msg("Reset", "", ""), <<>>, 0)

\* main_update: the feedback, history and index the callback returns.
main_update(trig, h, i, qs, ord, chosen) ==
    IF trig = "submit-btn" THEN
        IF no_answer(chosen, qs, ord, i)
        THEN Ret(Msg("Please select an answer first", "", ""), h, i)
        ELSE IF ~InRange(ord, i) \/ ~InRange(qs, At(ord, i))
        THEN Raise(h, i)
        ELSE LET current_q == At(qs, At(ord, i))
                 correct_answer == current_q.answer
                 is_correct == (chosen = correct_answer)
                 new_history == add_to_history(h, answer_event(i, ord, chosen, is_correct))
             IN  IF is_correct
                 THEN Ret(Msg("Correct! The answer is", correct_answer, ""), new_history, i)
                 ELSE Ret(Msg("Incorrect. The correct answer is", correct_answer, ""), new_history, i)
    ELSE IF trig = "next-btn" THEN Ret(no_update, h, new_index(i, ord))
    ELSE IF trig = "reset-btn" THEN reset_outputs(h, i)
    ELSE Ret(no_update, h, i)

\* download_results: nothing for an empty history, else the rows of the CSV,
\* one for each event, with the question at questions[h["q_idx"]].
download_results(h, qs) ==
    IF h = <<>> THEN [raised |-> FALSE, rows |-> <<>>]
    ELSE IF \E k \in 1..Len(h) : ~InRange(qs, h[k].q_idx)
    THEN [raised |-> TRUE, rows |-> <<>>]
    ELSE [raised |-> FALSE,
          rows |-> [k \in 1..Len(h) |->
                      [attempt |-> k, question |-> At(qs, h[k].q_idx).stem,
                       chosen |-> h[k].chosen, correct |-> h[k].correct,
                       answer |-> At(qs, h[k].q_idx).answer]]]

\* clear_feedback_on_next: the other callback of the Next button.
clear_feedback_on_next == Msg("", "", "")

\* reveal_answer reading questions[index] for questions[order[index]].
reveal_answer_unordered(qs, ord, i) ==
    IF qs = <<>> \/ ord = <<>> \/ i >= Len(ord)
    THEN [raised |-> FALSE, feedback |-> Msg("No question to reveal", "", "")]
    ELSE IF ~InRange(qs, i)
    THEN [raised |-> TRUE, feedback |-> no_update]
    ELSE LET current_q == At(qs, i)
             correct_answer == current_q.answer
         IN  [raised |-> FALSE,
              feedback |-> Msg("The correct answer is", correct_answer,
                               current_q.options[correct_answer])]

\* reveal_answer: the feedback the Reveal button writes.
reveal_answer(qs, ord, i) ==
    IF qs = <<>> \/ ord = <<>> \/ i >= Len(ord)
    THEN [raised |-> FALSE, feedback |-> Msg("No question to reveal", "", "")]
    ELSE IF ~InRange(ord, i) \/ ~InRange(qs, At(ord, i))
    THEN [raised |-> TRUE, feedback |-> no_update]
    ELSE LET current_q == At(qs, At(ord, i))
             correct_answer == current_q.answer
         IN  [raised |-> FALSE,
              feedback |-> Msg("The correct answer is", correct_answer,
                               current_q.options[correct_answer])]

-----------------------------------------------------------------------------
(* src/app_simple.py *)

\* load_quiz, line 394: at most 50 questions are kept.
SampleCount == 50

\* random.sample(population, k): k elements at distinct places, in any order.
\* Of the outcomes for a population longer than MaxPopulation two are
\* followed: the first k elements, and the last k from the last one back.
RandomSamples(population, k) ==
    IF Len(population) <= MaxPopulation
    THEN { [n \in 1..k |-> population[f[n]]] :
             f \in { g \in [1..k -> 1..Len(population)] :
                       \A a, b \in 1..k : a # b => g[a] # g[b] } }
    ELSE { [n \in 1..k |-> population[n]],
           [n \in 1..k |-> population[Len(population) + 1 - n]] }

\* get_random_questions without the sampling.
get_random_questions_unsampled(all_questions, count, sample) == all_questions

\* get_random_questions: all of them when there are no more than count, else
\* the sample random.sample drew.
get_random_questions(all_questions, count, sample) ==
    IF Len(all_questions) <= count THEN all_questions ELSE sample

\* The samples get_random_questions may draw.
Samples(all_questions, count) ==
    IF Len(all_questions) <= count THEN {<<>>} ELSE RandomSamples(all_questions, count)

\* A selected file: none selected, one that open() or the parser fails on, or
\* one with the question set parse_quiz_text reads from it.
Files == { [kind |-> "none", q |-> <<>>], [kind |-> "error", q |-> <<>>] }
             \cup { [kind |-> "ok", q |-> s] : s \in QuestionSets }

\* load_quiz, lines 408-412: order = list(range(len(questions))), shuffled by
\* the process-wide random source when the option is on and there are questions.
build_order_simple(qs, shuffle_on, draws) ==
    IF shuffle_on /\ qs # <<>> THEN shuffle(range(Len(qs)), draws) ELSE range(Len(qs))

\* load_quiz: return questions, all_questions, order, 0, [], status, color
\* (all-questions-store, which no other callback reads, and the status are left out).
load_quiz(file, shuffle_on, sample, draws) ==
    LET qs == IF file.kind = "ok" THEN get_random_questions(file.q, SampleCount, sample)
              ELSE IF file.kind = "error" THEN DEFAULT_QUESTIONS
              ELSE <<>>
    IN  [questions |-> qs, order |-> build_order_simple(qs, shuffle_on, draws),
         index |-> 0, history |-> <<>>]

\* display_question of app_simple.py.
display_question_simple(qs, ord, i) ==
    IF qs = <<>> \/ ord = <<>> \/ i >= Len(ord)
    THEN [text |-> "No questions available", options |-> {}, progress |-> NoQuestion, raised |-> FALSE]
    ELSE IF ~InRange(ord, i) \/ ~InRange(qs, At(ord, i))
    THEN [text |-> "", options |-> {}, progress |-> NoQuestion, raised |-> TRUE]
    ELSE [text |-> At(qs, At(ord, i)).stem, options |-> Labels,
          progress |-> [kind |-> "Question", n |-> i + 1, of |-> Len(ord)], raised |-> FALSE]

\* handle_actions, line 474: next((h for h in history if h.get("index") == index), None),
\* as the place of the first such entry (0: None).
prev_entry(h, i) ==
    LET hits == { k \in 1..Len(h) : h[k].index = i }
    IN  IF hits = {} THEN 0 ELSE CHOOSE k \in hits : \A m \in hits : k <= m

\* handle_actions, lines 493-499: the history entry of a submitted answer.
answer_event_simple(i, question, selected, correct) ==
    [index |-> i, question |-> question.stem, selected |-> selected,
     correct |-> correct, answer |-> question.answer]

\* new_index_simple going back to the first position after the last.
new_index_simple_wrapping(i, ord) == IF i + 1 >= Len(ord) THEN 0 ELSE i + 1

\* handle_actions, line 511: new_index = min(index + 1, len(order) - 1).
new_index_simple(i, ord) == Min(i + 1, Len(ord) - 1)

\* handle_actions: the feedback, history and index the callback returns (the
\* messages' leading emoji are left out).
handle_actions(trig, selected, qs, ord, i, h) ==
    IF trig = "submit.n_clicks" THEN
        IF h # <<>> /\ prev_entry(h, i) # 0
        THEN LET prev == h[prev_entry(h, i)]
             IN  IF prev.correct
                 THEN Ret(Msg("Correct! The answer is", prev.answer, ""), h, i)
                 ELSE Ret(Msg("Incorrect. The correct answer is", prev.answer, ""), h, i)
        ELSE IF selected = None
        THEN Ret(Msg("Please select an answer first!", "", ""), h, i)
        ELSE IF ~InRange(ord, i) \/ ~InRange(qs, At(ord, i))
        THEN Raise(h, i)
        ELSE LET question == At(qs, At(ord, i))
                 correct == (selected = question.answer)
                 new_history == add_to_history(h, answer_event_simple(i, question, selected, correct))
             IN  IF correct
                 THEN Ret(Msg("Correct! The answer is", question.answer, ""), new_history, i)
                 ELSE Ret(Msg("Incorrect. The correct answer is", question.answer, ""), new_history, i)
    ELSE IF trig = "next.n_clicks" THEN Ret(Msg("", "", ""), h, new_index_simple(i, ord))
    ELSE Ret(Msg("", "", ""), h, i)


-----------------------------------------------------------------------------
(* The score charts. *)

\* A quotient num / den of integers (Python computes it as a float: the double
\* nearest to the quotient).
Quotient(num, den) == [num |-> num, den |-> den]

SameQuotient(a, b) == a.num * b.den = b.num * a.den

\* correct_count counting every entry.
correct_count_of_all(h) == Len(h)

\* sum(1 for h in history if h["correct"])
correct_count(h) == Cardinality({ k \in 1..Len(h) : h[k].correct })

\* src/app.py, update_charts: the pie (labels, values, title "Score: c/t") and
\* the running-accuracy line (its y values, or the annotation of the empty
\* chart). acc_y[i] = 100.0 * running / (i + 1), running the number of correct
\* entries among history[0..i].
update_charts(h) ==
    LET total_answered == Len(h)
        correct == correct_count(h)
        incorrect == total_answered - correct
    IN  [pie |-> IF total_answered = 0
                 THEN [labels |-> <<"No answers yet">>, values |-> <<1>>, title |-> <<0, 0>>]
                 ELSE [labels |-> <<"Correct", "Incorrect">>, values |-> <<correct, incorrect>>,
                       title |-> <<correct, total_answered>>],
         line |-> IF total_answered = 0
                  THEN [annotation |-> "No answers yet", y |-> <<>>]
                  ELSE [annotation |-> "",
                        y |-> [k \in 1..Len(h) |->
                                 Quotient(100 * correct_count(SubSeq(h, 1, k)), k)]]]

\* f"{100 * correct / total:.1f}", in tenths of a percent (no quotient lies
\* halfway between two tenths while total < 16).
percent_tenths(correct, total) == (2000 * correct + total) \div (2 * total)

\* src/app_simple.py, update_chart: the bar chart (x, y, title
\* "Score: c/t (p%)"), or the annotation of the empty chart.
update_chart(h) ==
    IF h = <<>>
    THEN [annotation |-> "No answers yet", x |-> <<>>, y |-> <<>>, title |-> <<>>]
    ELSE LET correct == correct_count(h)
             total == Len(h)
         IN  [annotation |-> "", x |-> <<"Correct", "Incorrect">>,
              y |-> <<correct, total - correct>>,
              title |-> <<correct, total, percent_tenths(correct, total)>>]


-----------------------------------------------------------------------------
(* Quiz texts and their normalisation. *)

\* A text is a sequence of tokens: words, runs of whitespace, and the pieces
\* of '(variant ..)' tags.
Whitespace == {" ", "  ", "\n"}

\* The tokens that \(variant[^\)]*\) matches by themselves (re.IGNORECASE).
VariantTags == {"(variant 2)", "(Variant 4-7)"}

\* Two tokens that are no tag by themselves and make up '(variant 2)' when
\* nothing stands between them.
TagHead == "(vari"
TagTail == "ant 2)"

\* clean_text: re.sub(r"\s+", " ", s), each run of whitespace becomes one space
\* (a run at the end of s becomes the space that strip() then removes).
RECURSIVE collapse(_)
collapse(s) ==
    IF s = <<>> THEN <<>>
    ELSE IF Head(s) \in Whitespace
    THEN IF Tail(s) # <<>> /\ Head(Tail(s)) \in Whitespace
         THEN collapse(Tail(s))
         ELSE <<" ">> \o collapse(Tail(s))
    ELSE <<Head(s)>> \o collapse(Tail(s))

\* str.strip() of a text whose whitespace runs are single spaces.
strip(s) ==
    LET a == IF s # <<>> /\ Head(s) = " " THEN Tail(s) ELSE s
    IN  IF a # <<>> /\ a[Len(a)] = " " THEN SubSeq(a, 1, Len(a) - 1) ELSE a

\* clean_text(s) = re.sub(r"\s+", " ", s).strip()
clean_text(s) == strip(collapse(s))

\* re.sub(r"\(variant[^\)]*\)", "", stem, flags=re.IGNORECASE): one pass from
\* the left over the matches that do not overlap.
RECURSIVE remove_variant_tags(_)
remove_variant_tags(s) ==
    IF s = <<>> THEN <<>>
    ELSE IF Head(s) \in VariantTags THEN remove_variant_tags(Tail(s))
    ELSE IF Head(s) = TagHead /\ Tail(s) # <<>> /\ Head(Tail(s)) = TagTail
    THEN remove_variant_tags(Tail(Tail(s)))
    ELSE <<Head(s)>> \o remove_variant_tags(Tail(s))

\* normalize_stem(stem)
normalize_stem(stem) == clean_text(remove_variant_tags(stem))

\* str.lower() of a token.
lower_token(w) ==
    CASE w = "Bone" -> "bone"
      [] w = "TSH" -> "tsh"
      [] w = "(Variant 4-7)" -> "(variant 4-7)"
      [] OTHER -> w

\* str.lower()
lower(s) == [k \in 1..Len(s) |-> lower_token(s[k])]

\* match.group(7).upper(): str.upper() of the letter of an answer line.
upper(label) ==
    CASE label = "a" -> "A"
      [] label = "b" -> "B"
      [] label = "c" -> "C"
      [] label = "d" -> "D"
      [] OTHER -> label


-----------------------------------------------------------------------------
(* QA_BLOCK_RE over the lines of a text. *)

\* A text file is a sequence of lines, and a line is what it starts with: a
\* question number ("Q1: ..", "1. .."), an option marker ("A) .."), an answer
\* line ("Answer: B"), or nothing (a blank line). `text` is the rest of the line.
QuestionLine(prefix, num, sep, text) ==
    [kind |-> "Q", prefix |-> prefix, num |-> num, sep |-> sep, text |-> text]

OptionLine(label, text) == [kind |-> label, text |-> text]

AnswerLine(word, label) == [kind |-> "Answer", word |-> word, label |-> label, text |-> <<>>]

BlankLine == [kind |-> "blank", text |-> <<>>]

\* The tokens of a line, as a lazy group that runs over the line captures it.
line_tokens(line) ==
    CASE line.kind = "Q" ->
           <<line.prefix \o ToString(line.num) \o line.sep, " ">> \o line.text
      [] line.kind \in Labels -> <<line.kind \o ")", " ">> \o line.text
      [] line.kind = "Answer" -> <<line.word \o ":", " ", line.label>>
      [] OTHER -> <<>>

\* ^Q\s*(\d+)\s*: in app.py, ^(?:Q\s*)?(\d+)\s*(?::|\.) in app_simple.py.
starts_question(variant, line) ==
    /\ line.kind = "Q"
    /\ IF variant = "app" THEN line.prefix = "Q" /\ line.sep = ":"
       ELSE line.prefix \in {"Q", ""} /\ line.sep \in {":", "."}

\* \n\s*Answer\s*:\s*([ABCD])\s*$
ends_block(line) == line.kind = "Answer" /\ line.word = "Answer" /\ line.label \in Labels

\* A line starts with a marker: an option marker "A)" .. "D)", or the answer
\* line that ends a match.
at_marker(line, marker) ==
    IF marker = "Answer" THEN ends_block(line) ELSE line.kind = marker

\* The first line after line i that starts with the marker (0: there is none).
first_after(lines, i, marker) ==
    LET hits == { k \in (i + 1)..Len(lines) : at_marker(lines[k], marker) }
    IN  IF i = 0 \/ hits = {} THEN 0 ELSE CHOOSE k \in hits : \A m \in hits : k <= m

\* The match of QA_BLOCK_RE that starts at line i: the lines of its markers.
\* Each lazy group (.*?) ends at the first line that starts with the next
\* marker, whatever lines lie between (re.DOTALL).
block_match(lines, i) ==
    LET a == first_after(lines, i, "A")
        b == first_after(lines, a, "B")
        c == first_after(lines, b, "C")
        d == first_after(lines, c, "D")
        e == first_after(lines, d, "Answer")
    IN  [q |-> i, A |-> a, B |-> b, C |-> c, D |-> d, answer |-> e]

\* What a group captures from the line `from` up to the line `to`: the rest
\* of the first line and every line between.
RECURSIVE captured(_, _, _)
captured(lines, from, to) ==
    IF from + 1 >= to THEN lines[from].text
    ELSE captured(lines, from, to - 1) \o <<"\n">> \o line_tokens(lines[to - 1])

\* parse_quiz_text, lines 42-55: the block of a match.
block_of(lines, m) ==
    LET stem_raw == captured(lines, m.q, m.A)
    IN  [qnum |-> lines[m.q].num,
         stem |-> normalize_stem(stem_raw),
         stem_raw |-> clean_text(stem_raw),
         options |-> [A |-> clean_text(captured(lines, m.A, m.B)),
                      B |-> clean_text(captured(lines, m.B, m.C)),
                      C |-> clean_text(captured(lines, m.C, m.D)),
                      D |-> clean_text(captured(lines, m.D, m.answer))],
         answer |-> upper(lines[m.answer].label)]

\* QA_BLOCK_RE.finditer(text) from line i on: the matches, from the left,
\* each search starting where the last match ended.
RECURSIVE finditer(_, _, _)
finditer(variant, lines, i) ==
    IF i > Len(lines) THEN <<>>
    ELSE LET m == block_match(lines, i)
         IN  IF starts_question(variant, lines[i]) /\ m.answer # 0
             THEN <<block_of(lines, m)>> \o finditer(variant, lines, m.answer + 1)
             ELSE finditer(variant, lines, i + 1)


-----------------------------------------------------------------------------
(* parse_quiz_text *)

\* QA_BLOCK_RE.search(ch): the first match in a chunk, if there is one.
search(variant, ch) ==
    LET found == finditer(variant, ch, 1)
    IN  IF found = <<>> THEN <<>> ELSE <<found[1]>>

\* The recovery scan: re.split at every line that starts a question, and the
\* first match of each chunk (the chunk before the first such line starts no
\* question and has no match).
RECURSIVE rescan_chunks(_, _, _)
rescan_chunks(variant, lines, i) ==
    IF i > Len(lines) THEN <<>>
    ELSE IF starts_question(variant, lines[i])
    THEN LET later == { k \in (i + 1)..Len(lines) : starts_question(variant, lines[k]) }
             stop == IF later = {} THEN Len(lines) + 1
                     ELSE CHOOSE k \in later : \A m \in later : k <= m
         IN  search(variant, SubSeq(lines, i, stop - 1)) \o rescan_chunks(variant, lines, stop)
    ELSE rescan_chunks(variant, lines, i + 1)

\* scanned_blocks with the recovery scan run after every primary scan.
scanned_blocks_always_rescanning(variant, lines) ==
    finditer(variant, lines, 1) \o rescan_chunks(variant, lines, 1)

\* The blocks list before dedupe: the matches of the primary scan, or those of
\* the recovery scan when the primary scan has none.
scanned_blocks(variant, lines) ==
    LET blocks == finditer(variant, lines, 1)
    IN  IF blocks = <<>> THEN rescan_chunks(variant, lines, 1) ELSE blocks

\* dedupe_from with the key not lower-cased.
RECURSIVE dedupe_from_case_sensitive(_, _)
dedupe_from_case_sensitive(blocks, seen) ==
    IF blocks = <<>> THEN <<>>
    ELSE LET key == Head(blocks).stem
         IN  IF key \in seen THEN dedupe_from_case_sensitive(Tail(blocks), seen)
             ELSE <<Head(blocks)>> \o dedupe_from_case_sensitive(Tail(blocks), seen \cup {key})

\* The dedupe loop: a block whose key b["stem"].lower() was seen is skipped.
RECURSIVE dedupe_from(_, _)
dedupe_from(blocks, seen) ==
    IF blocks = <<>> THEN <<>>
    ELSE LET key == lower(Head(blocks).stem)
         IN  IF key \in seen THEN dedupe_from(Tail(blocks), seen)
             ELSE <<Head(blocks)>> \o dedupe_from(Tail(blocks), seen \cup {key})

\* if dedupe: ... blocks = deduped
deduped(blocks, dedupe) == IF dedupe THEN dedupe_from(blocks, {}) ELSE blocks

\* insert_by_qnum putting a block behind the blocks of the same qnum.
RECURSIVE insert_behind_equals(_, _)
insert_behind_equals(b, sorted) ==
    IF sorted = <<>> THEN <<b>>
    ELSE IF b.qnum < Head(sorted).qnum THEN <<b>> \o sorted
    ELSE <<Head(sorted)>> \o insert_behind_equals(b, Tail(sorted))

\* A block put in front of the sorted blocks that followed it in the list:
\* before the first of them whose qnum is not smaller.
RECURSIVE insert_by_qnum(_, _)
insert_by_qnum(b, sorted) ==
    IF sorted = <<>> THEN <<b>>
    ELSE IF b.qnum <= Head(sorted).qnum THEN <<b>> \o sorted
    ELSE <<Head(sorted)>> \o insert_by_qnum(b, Tail(sorted))

\* blocks.sort(key=lambda x: x.get("qnum", 0)): list.sort is stable.
RECURSIVE sort_by_qnum(_)
sort_by_qnum(blocks) ==
    IF blocks = <<>> THEN <<>>
    ELSE insert_by_qnum(Head(blocks), sort_by_qnum(Tail(blocks)))

\* parse_quiz_text with the blocks sorted before they are deduplicated.
parse_quiz_text_sorting_first(lines, dedupe) ==
    deduped(sort_by_qnum(scanned_blocks("app", lines)), dedupe)

\* src/app.py, parse_quiz_text(text, dedupe)
parse_quiz_text(lines, dedupe) ==
    sort_by_qnum(deduped(scanned_blocks("app", lines), dedupe))

\* limit_to with the last max_questions blocks kept.
limit_to_last(blocks, max_questions) ==
    IF Len(blocks) > max_questions
    THEN SubSeq(blocks, Len(blocks) - max_questions + 1, Len(blocks))
    ELSE blocks

\* src/app_simple.py, lines 91-93: blocks[:max_questions] when there are more.
limit_to(blocks, max_questions) ==
    IF Len(blocks) > max_questions THEN SubSeq(blocks, 1, max_questions) ELSE blocks

\* src/app_simple.py, parse_quiz_text(text, dedupe, max_questions)
parse_quiz_text_simple(lines, dedupe, max_questions) ==
    limit_to(sort_by_qnum(deduped(scanned_blocks("simple", lines), dedupe)), max_questions)


-----------------------------------------------------------------------------
(* Quiz texts. *)

RECURSIVE concat(_)
concat(seqs) == IF seqs = <<>> THEN <<>> ELSE Head(seqs) \o concat(Tail(seqs))

\* The answer written in the k-th block of a text.
AnswerOf(k) == CASE k % 4 = 1 -> "B" [] k % 4 = 2 -> "C" [] k % 4 = 3 -> "A" [] OTHER -> "D"

\* The k-th block of a text, with the question number and the stem it is
\* written with: "Q<num>: <stem>", "A) a<k>" .. "D) d<k>", "Answer: <label>",
\* and a blank line.
Block(k, num, stem) ==
    << QuestionLine("Q", num, ":", stem),
       OptionLine("A", <<"a" \o ToString(k)>>),
       OptionLine("B", <<"b" \o ToString(k)>>),
       OptionLine("C", <<"c" \o ToString(k)>>),
       OptionLine("D", <<"d" \o ToString(k)>>),
       AnswerLine("Answer", AnswerOf(k)),
       BlankLine >>

\* Stems that differ in case and in a variant tag only, and one that differs.
Stems == { <<"Bone">>, <<"bone", " ", "(Variant 4-7)">>, <<"TSH">> }

\* Texts of well-formed blocks whose numbers and stems repeat.
RepeatingTexts ==
    UNION { { concat([k \in 1..n |-> Block(k, c[k][1], c[k][2])]) :
                c \in [1..n -> (1..MaxOrdinal) \X Stems] } : n \in 0..MaxBlocks }

\* What a block of a text may lack: nothing, one of its option lines, its
\* answer line, or a label in its answer line.
Shapes == {"full", "no A", "no B", "no C", "no D", "no Answer", "bad Answer"}

\* The k-th block, numbered k with the stem s<k>, in a shape.
ShapedBlock(k, shape) ==
    LET full == Block(k, k, <<"s" \o ToString(k)>>)
        kept(line) == shape # "no " \o line.kind
        written(line) == IF shape = "bad Answer" /\ line.kind = "Answer"
                         THEN AnswerLine("Answer", "E") ELSE line
        lines == SelectSeq(full, kept)
    IN  [j \in 1..Len(lines) |-> written(lines[j])]

\* Texts of blocks that lack lines.
BrokenTexts ==
    UNION { { concat([k \in 1..n |-> ShapedBlock(k, c[k])]) : c \in [1..n -> Shapes] } :
              n \in 0..MaxBlocks }

\* How a block may be written: its number with or without the Q and with a
\* colon or a full stop, the word of its answer line and its letter in
\* either case.
Dialects ==
    [prefix : {"Q", ""}, sep : {":", "."}, word : {"Answer", "answer", "ANSWER"},
     lowercase : BOOLEAN]

\* The letter of an answer line in lower case.
LowerLabel(label) ==
    CASE label = "A" -> "a" [] label = "B" -> "b" [] label = "C" -> "c" [] OTHER -> "d"

\* The k-th block, numbered k with the stem s<k>, in a dialect.
DialectBlock(k, dialect) ==
    LET full == Block(k, k, <<"s" \o ToString(k)>>)
        written(line) ==
            CASE line.kind = "Q" -> QuestionLine(dialect.prefix, line.num, dialect.sep, line.text)
              [] line.kind = "Answer" ->
                   AnswerLine(dialect.word,
                              IF dialect.lowercase THEN LowerLabel(line.label) ELSE line.label)
              [] OTHER -> line
    IN  [j \in 1..Len(full) |-> written(full[j])]

\* Texts of well-formed blocks, one of them in a dialect.
DialectTexts ==
    UNION { { concat([k \in 1..n |->
                        IF k = j THEN DialectBlock(k, d) ELSE Block(k, k, <<"s" \o ToString(k)>>)]) :
                j \in 1..n, d \in Dialects } : n \in 1..MaxBlocks }

\* Stems of variant tags and whitespace: a tag inside the two halves of
\* another, a tag alone, a tag behind a word, whitespace alone, nothing.
TaggedStems ==
    { <<TagHead, "(variant 2)", TagTail, " ", "x">>, <<TagHead, "(variant 2)", TagTail>>,
      <<"(variant 2)">>, <<"x", "  ", "(Variant 4-7)">>, <<"  ">>, <<>> }

\* Texts of well-formed blocks, one of them with such a stem.
TaggedTexts ==
    UNION { { concat([k \in 1..n |->
                        Block(k, k, IF k = j THEN s ELSE <<"s" \o ToString(k)>>)]) :
                j \in 1..n, s \in TaggedStems } : n \in 1..MaxBlocks }

QuizTexts == RepeatingTexts \cup BrokenTexts \cup DialectTexts \cup TaggedTexts


-----------------------------------------------------------------------------
(* Calls of the parsing and sampling functions. *)

Returned(value) == [returned |-> TRUE, raised |-> FALSE, value |-> value]

Raised(error) == [returned |-> FALSE, raised |-> TRUE, error |-> error]

\* What parse_quiz_text returns, with the blocks list as it was before the
\* dedupe and the sort (lines 38-74), and as it was after the primary scan
\* (lines 38-55).
Parsed(blocks, scanned, primary) ==
    [returned |-> TRUE, raised |-> FALSE, value |-> blocks, scanned |-> scanned,
     primary |-> primary]

\* src/app_simple.py, parse_quiz_text: max_questions=25; load_quiz passes 1000.
DefaultMaxQuestions == 25
LoadMaxQuestions == 1000

\* The values of max_questions parse_quiz_text is called with.
Caps == (1..MaxCap) \cup {DefaultMaxQuestions}

\* The lists get_random_questions and pick_unique_questions are called with:
\* questions that may repeat.
QuestionLists == UNION { [1..n -> {FileRecord(1), FileRecord(2)}] : n \in 0..MaxPopulation }

\* The counts they are called with.
Counts == (0..(MaxPopulation + 1)) \cup {SampleCount}

\* `blocks` at line 89 of app_simple.py for a file of n well-formed blocks
\* numbered 1..n whose stems all differ.
LongBlocks(n) ==
    [k \in 1..n |->
        [qnum |-> k, stem |-> <<"s" \o ToString(k)>>, stem_raw |-> <<"s" \o ToString(k)>>,
         options |-> [A |-> <<"a" \o ToString(k)>>, B |-> <<"b" \o ToString(k)>>,
                      C |-> <<"c" \o ToString(k)>>, D |-> <<"d" \o ToString(k)>>],
         answer |-> AnswerOf(k)]]

\* The tokens of the stems normalize_stem is called with: a word, whitespace,
\* a variant tag and the two halves of one.
StemTokens == {"x", " ", "\n", "(variant 2)", "(Variant 4-7)", TagHead, TagTail}

StemTexts == UNION { [1..n -> StemTokens] : n \in 0..MaxTokens }

\* A stem normalized, and normalized once more.
normalized_twice(stem) ==
    [returned |-> TRUE, raised |-> FALSE,
     value |-> normalize_stem(stem), again |-> normalize_stem(normalize_stem(stem))]

\* The numbers of blocks of the files load_quiz reads.
FileSizes == {0, 1, SampleCount, SampleCount + 1, LoadMaxQuestions, LoadMaxQuestions + 1}

Calls ==
    { [fn |-> "parse_quiz_text", variant |-> "app", text |-> t, dedupe |-> d] :
        t \in QuizTexts, d \in BOOLEAN }
    \cup { [fn |-> "parse_quiz_text", variant |-> "simple", text |-> t, dedupe |-> d,
            max_questions |-> m] : t \in QuizTexts, d \in BOOLEAN, m \in Caps }
    \cup { [fn |-> "get_random_questions", all_questions |-> q, count |-> k] :
             q \in QuestionLists, k \in Counts }
    \cup { [fn |-> "pick_unique_questions", questions |-> q, k |-> k] :
             q \in QuestionLists, k \in Counts }
    \cup { [fn |-> "load_quiz", blocks |-> LongBlocks(n)] : n \in FileSizes }
    \cup { [fn |-> "normalize_stem", stem |-> s] : s \in StemTexts }

\* pick_unique_questions without the check of k.
pick_unique_questions_unchecked(qs, k, sample) == Returned(sample)

\* src/generate_energy_quiz_pdfs.py, pick_unique_questions: ValueError when k
\* exceeds the number of questions, else rnd.sample(questions, k), `sample`
\* being what the (seeded or process-wide) random source drew.
pick_unique_questions(qs, k, sample) ==
    IF k > Len(qs) THEN Raised("ValueError") ELSE Returned(sample)

\* src/app_simple.py, load_quiz, lines 393-394: the end of
\* parse_quiz_text(text, dedupe, max_questions=1000), which limits the sorted
\* blocks, and get_random_questions(all_questions, 50).
read_questions(blocks, sample) ==
    LET all_questions == limit_to(blocks, LoadMaxQuestions)
    IN  [returned |-> TRUE, raised |-> FALSE,
         all_questions |-> all_questions,
         questions |-> get_random_questions(all_questions, SampleCount, sample)]

-----------------------------------------------------------------------------
(* The session: the stores, and the callbacks writing them. *)

\* No parsing or sampling function is called by itself in a session.
NoCall == [fn |-> ""]

NotReturned == [returned |-> FALSE, raised |-> FALSE]

Action(id, chosen, shuffle_on) == [id |-> id, chosen |-> chosen, shuffle |-> shuffle_on]

\* A callback request: the callback, and the State values the click sent with it.
Request(callback) ==
    [callback |-> callback, questions |-> questions, order |-> order,
     index |-> index, history |-> history]

\* The layouts' initial store data: app.py has store-questions and store-order
\* unset, store-index 0, store-history []; app_simple.py has [], [], 0, [].
Init ==
    /\ app \in {"app", "simple"}
    /\ questions = <<>>
    /\ order = <<>>
    /\ index = 0
    /\ history = <<>>
    /\ feedback = Msg("", "", "")
    /\ raised = FALSE
    /\ trigger = Action("init", None, FALSE)
    /\ tick = 0
    /\ nexts = 0
    /\ pending = {}
    /\ call = NoCall
    /\ result = NotReturned

\* The page's initial callbacks have run.
Started == trigger.id # "init"

\* The user acts when the callbacks of the last action have all answered.
Idle(variant) == app = variant /\ pending = {}

\* The inputs that trigger load_or_reset by itself: none on the page load
\* (callback_context.triggered is empty), one of four components after it.
LoadTriggers == IF Started THEN {"load-btn", "load-default-btn", "upload", "file-dropdown"} ELSE {""}

\* The file dropdown has no value on the page load.
SelectableFiles == IF Started THEN Files ELSE {[kind |-> "none", q |-> <<>>]}

\* app.py: the page load, Load Quiz, Load Default Questions, an upload or a
\* file selection runs load_or_reset.
LoadOrReset ==
    /\ Idle("app")
    /\ \E trig \in LoadTriggers, text \in Texts, shuffle_opt \in BOOLEAN :
         LET r == load_or_reset(trig, text, text, shuffle_opt)
         IN  /\ questions' = r.questions
             /\ order' = r.order
             /\ index' = r.index
             /\ history' = r.history
             /\ trigger' = Action(trig, None, shuffle_opt)
    /\ raised' = FALSE
    /\ tick' = 1 - tick
    /\ nexts' = 0
    /\ UNCHANGED <<app, feedback, pending>>
    /\ UNCHANGED <<call, result>>

\* app.py: Reset is an Input of load_or_reset and of main_update, and the click
\* sends both requests.
ResetClick ==
    /\ Idle("app")
    /\ Started
    /\ \E shuffle_opt \in BOOLEAN : trigger' = Action("reset-btn", None, shuffle_opt)
    /\ pending' = {Request("load_or_reset"), Request("main_update")}
    /\ raised' = FALSE
    /\ tick' = 1 - tick
    /\ nexts' = 0
    /\ UNCHANGED <<app, questions, order, index, history, feedback>>
    /\ UNCHANGED <<call, result>>

\* load_or_reset answers the Reset click.
ResetLoadOrReset ==
    \E req \in pending :
        /\ req.callback = "load_or_reset"
        /\ LET r == load_or_reset(trigger.id, NoText, NoText, trigger.shuffle)
           IN  /\ questions' = r.questions
               /\ order' = r.order
               /\ index' = r.index
               /\ history' = r.history
        /\ pending' = pending \ {req}
        /\ UNCHANGED <<app, feedback, raised, trigger, tick, nexts>>
        /\ UNCHANGED <<call, result>>

\* main_update answers the Reset click.
ResetMainUpdate ==
    \E req \in pending :
        /\ req.callback = "main_update"
        /\ LET r == main_update(trigger.id, req.history, req.index, req.questions, req.order, None)
           IN  /\ feedback' = Written(feedback, r.feedback)
               /\ history' = r.history
               /\ index' = r.index
        /\ pending' = pending \ {req}
        /\ UNCHANGED <<app, questions, order, raised, trigger, tick, nexts>>
        /\ UNCHANGED <<call, result>>

\* app.py: Submit runs main_update with the chosen radio item.
Submit ==
    /\ Idle("app")
    /\ Started
    /\ Len(history) < MaxHistory
    /\ \E chosen \in Chosen :
         LET r == main_update("submit-btn", history, index, questions, order, chosen)
         IN  /\ feedback' = Written(feedback, r.feedback)
             /\ history' = r.history
             /\ index' = r.index
             /\ raised' = r.raised
             /\ trigger' = Action("submit-btn", chosen, FALSE)
    /\ tick' = 1 - tick
    /\ UNCHANGED <<app, questions, order, nexts, pending>>
    /\ UNCHANGED <<call, result>>

\* app.py: Next runs main_update and clear_feedback_on_next.
Advance ==
    /\ Idle("app")
    /\ Started
    /\ nexts < MaxNexts
    /\ LET r == main_update("next-btn", history, index, questions, order, None)
       IN  /\ feedback' = clear_feedback_on_next
           /\ history' = r.history
           /\ index' = r.index
           /\ raised' = r.raised
    /\ trigger' = Action("next-btn", None, FALSE)
    /\ tick' = 1 - tick
    /\ nexts' = nexts + 1
    /\ UNCHANGED <<app, questions, order, pending>>
    /\ UNCHANGED <<call, result>>

\* app.py: Reveal runs reveal_answer.
Reveal ==
    /\ Idle("app")
    /\ Started
    /\ LET r == reveal_answer(questions, order, index)
       IN  /\ feedback' = Written(feedback, r.feedback)
           /\ raised' = r.raised
    /\ trigger' = Action("reveal-btn", None, FALSE)
    /\ tick' = 1 - tick
    /\ UNCHANGED <<app, questions, order, index, history, nexts, pending>>
    /\ UNCHANGED <<call, result>>

\* app_simple.py: the page load and every change of the file dropdown run load_quiz.
LoadQuiz ==
    /\ Idle("simple")
    /\ \E file \in SelectableFiles, shuffle_on \in BOOLEAN :
         \E sample \in Samples(file.q, SampleCount) :
           LET qs == load_quiz(file, shuffle_on, sample, <<>>).questions
           IN  \E draws \in RandomDraws(Len(qs)) :
                 LET r == load_quiz(file, shuffle_on, sample, draws)
                 IN  /\ questions' = r.questions
                     /\ order' = r.order
                     /\ index' = r.index
                     /\ history' = r.history
                     /\ trigger' = Action("file-dropdown", None, shuffle_on)
    /\ raised' = FALSE
    /\ tick' = 1 - tick
    /\ nexts' = 0
    /\ UNCHANGED <<app, feedback, pending>>
    /\ UNCHANGED <<call, result>>

\* app_simple.py: Submit runs handle_actions with the chosen radio item.
SubmitSimple ==
    /\ Idle("simple")
    /\ Started
    /\ \E selected \in Chosen :
         LET r == handle_actions("submit.n_clicks", selected, questions, order, index, history)
         IN  /\ feedback' = Written(feedback, r.feedback)
             /\ history' = r.history
             /\ index' = r.index
             /\ raised' = r.raised
             /\ trigger' = Action("submit-btn", selected, FALSE)
    /\ tick' = 1 - tick
    /\ UNCHANGED <<app, questions, order, nexts, pending>>
    /\ UNCHANGED <<call, result>>

\* app_simple.py: Next runs handle_actions.
AdvanceSimple ==
    /\ Idle("simple")
    /\ Started
    /\ nexts < MaxNexts
    /\ LET r == handle_actions("next.n_clicks", None, questions, order, index, history)
       IN  /\ feedback' = Written(feedback, r.feedback)
           /\ history' = r.history
           /\ index' = r.index
           /\ raised' = r.raised
    /\ trigger' = Action("next-btn", None, FALSE)
    /\ tick' = 1 - tick
    /\ nexts' = nexts + 1
    /\ UNCHANGED <<app, questions, order, pending>>
    /\ UNCHANGED <<call, result>>


\* A function is called, with arguments of the bounded sets.
InitCalls ==
    /\ app = "functions"
    /\ questions = <<>>
    /\ order = <<>>
    /\ index = 0
    /\ history = <<>>
    /\ feedback = Msg("", "", "")
    /\ raised = FALSE
    /\ trigger = Action("init", None, FALSE)
    /\ tick = 0
    /\ nexts = 0
    /\ pending = {}
    /\ call \in Calls
    /\ result = NotReturned

\* The call has not returned yet.
Calling(fn) == call.fn = fn /\ result = NotReturned

Session == <<app, questions, order, index, history, feedback, raised, trigger, tick, nexts, pending>>

\* app.py's parse_quiz_text returns.
ParseQuizText ==
    /\ Calling("parse_quiz_text")
    /\ call.variant = "app"
    /\ result' = Parsed(parse_quiz_text(call.text, call.dedupe),
                         scanned_blocks("app", call.text), finditer("app", call.text, 1))
    /\ UNCHANGED <<Session, call>>

\* app_simple.py's parse_quiz_text returns.
ParseQuizTextSimple ==
    /\ Calling("parse_quiz_text")
    /\ call.variant = "simple"
    /\ result' = Parsed(parse_quiz_text_simple(call.text, call.dedupe, call.max_questions),
                         scanned_blocks("simple", call.text),
                         finditer("simple", call.text, 1))
    /\ UNCHANGED <<Session, call>>

\* get_random_questions returns.
GetRandomQuestions ==
    /\ Calling("get_random_questions")
    /\ \E sample \in Samples(call.all_questions, call.count) :
         result' = Returned(get_random_questions(call.all_questions, call.count, sample))
    /\ UNCHANGED <<Session, call>>

\* pick_unique_questions returns or raises.
PickUniqueQuestions ==
    /\ Calling("pick_unique_questions")
    /\ \E sample \in (IF call.k > Len(call.questions) THEN {<<>>}
                      ELSE RandomSamples(call.questions, call.k)) :
         result' = pick_unique_questions(call.questions, call.k, sample)
    /\ UNCHANGED <<Session, call>>

\* load_quiz has read the questions of the selected file.
ReadQuestions ==
    /\ Calling("load_quiz")
    /\ \E sample \in Samples(limit_to(call.blocks, LoadMaxQuestions), SampleCount) :
         result' = read_questions(call.blocks, sample)
    /\ UNCHANGED <<Session, call>>

NormalizeStem ==
    /\ Calling("normalize_stem")
    /\ result' = normalized_twice(call.stem)
    /\ UNCHANGED <<call, Session>>

NextCalls ==
    \/ ParseQuizText
    \/ ParseQuizTextSimple
    \/ GetRandomQuestions
    \/ PickUniqueQuestions
    \/ ReadQuestions
    \/ NormalizeStem

\* The functions by themselves.
SpecCalls == InitCalls /\ [][NextCalls]_vars

NextApp ==
    \/ LoadOrReset
    \/ ResetClick
    \/ ResetLoadOrReset
    \/ ResetMainUpdate
    \/ Submit
    \/ Advance
    \/ Reveal

NextSimple ==
    \/ LoadQuiz
    \/ SubmitSimple
    \/ AdvanceSimple

Next == NextApp \/ NextSimple

\* Both variants.
Spec == Init /\ [][Next]_vars

\* The session of app.py.
InitApp == Init /\ app = "app"

SpecApp == InitApp /\ [][NextApp]_vars

\* The session of app_simple.py.
InitSimple == Init /\ app = "simple"

SpecSimple == InitSimple /\ [][NextSimple]_vars

-----------------------------------------------------------------------------
(* The session in the specification's words. *)

\* An AnswerEvent's fields: app.py writes {idx, q_idx, chosen, correct},
\* app_simple.py {index, question, selected, correct, answer}.
EventPosition(e) == IF app = "app" THEN e.idx ELSE e.index

EventChosen(e) == IF app = "app" THEN e.chosen ELSE e.selected

\* The correct answer of the question an event is about.
EventAnswer(e) == IF app = "app" THEN At(questions, e.q_idx).answer ELSE e.answer

\* InProgress: 0 <= position < len(order).
InProgress == 0 <= index /\ index < Len(order)

\* Complete or Empty: there is no current question.
NothingToActOn == index >= Len(order) \/ questions = <<>>

\* questions[order[position]]
CurrentRecord == At(questions, At(order, index))

\* currentQuestion(): what the variant's display_question returns for the stores.
CurrentQuestion ==
    IF app = "app" THEN display_question(questions, order, index)
    ELSE display_question_simple(questions, order, index)

\* The places of the history entries recorded for a position.
Recorded(h, i) == { k \in 1..Len(h) : EventPosition(h[k]) = i }

\* The result message of a recorded answer.
ResultOf(e) ==
    IF e.correct THEN Msg("Correct! The answer is", EventAnswer(e), "")
    ELSE Msg("Incorrect. The correct answer is", EventAnswer(e), "")

IsPermutation(ord) == { ord[k] : k \in 1..Len(ord) } = 0..(Len(ord) - 1)

\* A step in which the user acts on the component `id`.
UserStep(id) == tick' # tick /\ trigger'.id = id

\* A step in which the last request of a Reset click is answered.
ResetDone == trigger.id = "reset-btn" /\ pending # {} /\ pending' = {}


\* The score the variant's chart callback reports for a history: no data, or
\* the correct and incorrect counts, and the running-accuracy points (app.py
\* only; app_simple.py draws no running accuracy).
Score(h) ==
    IF app = "app"
    THEN LET c == update_charts(h)
         IN  [nodata |-> c.pie.labels = <<"No answers yet">> /\ c.line.annotation = "No answers yet",
              counts |-> IF Len(c.pie.values) = 2 THEN c.pie.values ELSE <<>>,
              running |-> c.line.y]
    ELSE LET c == update_chart(h)
         IN  [nodata |-> c.annotation = "No answers yet", counts |-> c.y, running |-> <<>>]

\* The events of a history that are correct.
CorrectEvents(h) == { k \in 1..Len(h) : h[k].correct }


\* A call of parse_quiz_text (of either variant) has returned its records.
ParseReturned == call.fn = "parse_quiz_text" /\ result.returned

\* The parsed sequence before dedupe and sort, in source-text order. The
\* blocks of a text differ from each other in their option texts.
Scanned == result.scanned

\* The case-insensitive form of a record's normalized stem.
Key(b) == lower(b.stem)

\* The places of a sequence of records whose key no earlier place has.
FirstOccurrences(blocks) ==
    { j \in 1..Len(blocks) : \A i \in 1..(j - 1) : Key(blocks[i]) # Key(blocks[j]) }

\* The places of the parsed sequence that are left after the dedupe step.
PostDedupe == IF call.dedupe THEN FirstOccurrences(Scanned) ELSE 1..Len(Scanned)

Elements(s) == { s[k] : k \in 1..Len(s) }

Occurrences(s, b) == Cardinality({ k \in 1..Len(s) : s[k] = b })

\* The records are those at the places `kept` of the parsed sequence, each as
\* often as it is there, in some order.
ArePlacesOf(records, kept) ==
    /\ Len(records) = Cardinality(kept)
    /\ \A b \in Elements(records) \cup Elements(Scanned) :
         Occurrences(records, b) = Cardinality({ j \in kept : Scanned[j] = b })

\* No cap cuts the result: app.py has none, app_simple.py's is not exceeded.
NotTruncated == call.variant = "app" \/ Len(Scanned) <= call.max_questions

\* The place of a record in a sequence.
Place(s, b) == CHOOSE k \in 1..Len(s) : s[k] = b


\* Every record of `records` is at a place of `input` of its own.
IsSampleOf(records, input) ==
    \A b \in Elements(records) : Occurrences(records, b) <= Occurrences(input, b)

\* A call has returned or raised.
Done(fn) == call.fn = fn /\ result # NotReturned

\* A record is the block of the text that starts at line i and ends before
\* the next question line: it has the number and the stem of line i, and its
\* options and answer are those of an A), a B), a C), a D) and an answer line
\* of that block, in this order.
IsBlockAt(r, lines, i) ==
    LET later == { k \in (i + 1)..Len(lines) : lines[k].kind = "Q" }
        stop == IF later = {} THEN Len(lines) + 1 ELSE CHOOSE k \in later : \A m \in later : k <= m
        within == (i + 1)..(stop - 1)
    IN  /\ lines[i].kind = "Q"
        /\ r.qnum = lines[i].num
        /\ r.stem_raw = clean_text(lines[i].text)
        /\ \E a \in within :
             /\ lines[a].kind = "A" /\ r.options.A = clean_text(lines[a].text)
             /\ \E b \in within :
                  /\ a < b /\ lines[b].kind = "B" /\ r.options.B = clean_text(lines[b].text)
                  /\ \E c \in within :
                       /\ b < c /\ lines[c].kind = "C" /\ r.options.C = clean_text(lines[c].text)
                       /\ \E d \in within :
                            /\ c < d /\ lines[d].kind = "D"
                            /\ r.options.D = clean_text(lines[d].text)
                            /\ \E e \in within :
                                 d < e /\ ends_block(lines[e]) /\ r.answer = lines[e].label


\* The words an answer line may start with, and the letters it may name, when
\* letter case is not told apart.
AnswerWords == {"Answer", "answer", "ANSWER"}

IsAnswerLine(line) ==
    line.kind = "Answer" /\ line.word \in AnswerWords /\ upper(line.label) \in Labels

\* Lines i .. i+5 are a well-formed block: a question line, the four option
\* lines in order and an answer line.
WellFormedAt(lines, i) ==
    /\ i + 5 <= Len(lines)
    /\ lines[i].kind = "Q"
    /\ lines[i + 1].kind = "A" /\ lines[i + 2].kind = "B"
    /\ lines[i + 3].kind = "C" /\ lines[i + 4].kind = "D"
    /\ IsAnswerLine(lines[i + 5])

\* A text of well-formed blocks only, with blank lines between them.
WellFormedText(lines) ==
    \A i \in 1..Len(lines) :
        \/ lines[i].kind = "blank"
        \/ \E q \in 1..i : i <= q + 5 /\ WellFormedAt(lines, q)

\* The record of the well-formed block at line i.
RecordOf(lines, i) ==
    [qnum |-> lines[i].num,
     stem |-> normalize_stem(lines[i].text),
     stem_raw |-> clean_text(lines[i].text),
     options |-> [A |-> clean_text(lines[i + 1].text), B |-> clean_text(lines[i + 2].text),
                  C |-> clean_text(lines[i + 3].text), D |-> clean_text(lines[i + 4].text)],
     answer |-> upper(lines[i + 5].label)]

\* The question line is written the way the variant's parser reads it.
InOwnDialect(line) == starts_question(call.variant, line)


\* A text holds a '(variant ..)' annotation, in any letter case: a tag, or
\* the two halves of one with nothing between them.
HasAnnotation(s) ==
    \E k \in 1..Len(s) :
        \/ lower_token(s[k]) \in { lower_token(tag) : tag \in VariantTags }
        \/ k < Len(s) /\ s[k] = TagHead /\ s[k + 1] = TagTail


\* The matches of the primary scan of the parsed text.
PrimaryMatches == result.primary

\* The lines of a text at which the recovery strategy splits it.
ChunkStarts(lines) == { i \in 1..Len(lines) : InOwnDialect(lines[i]) }

\* The chunk that starts at line i: up to the line before the next start.
ChunkAt(lines, i) ==
    LET later == { k \in ChunkStarts(lines) : k > i }
        stop == IF later = {} THEN Len(lines) + 1 ELSE CHOOSE k \in later : \A m \in later : k <= m
    IN  SubSeq(lines, i, stop - 1)


\* list(range(n)) after random.Random(42).shuffle, as CPython gives it.
Seed42Order(n) ==
    CASE n = 0 -> <<>>
      [] n = 1 -> <<0>>
      [] n = 2 -> <<1, 0>>
      [] n = 3 -> <<1, 0, 2>>
      [] n = 4 -> <<2, 1, 3, 0>>
      [] n = 5 -> <<3, 1, 2, 4, 0>>
      [] n = 6 -> <<3, 1, 2, 4, 0, 5>>

-----------------------------------------------------------------------------
(* Claims. *)

\* C1: a submit at a position of an InProgress session that already has a
\* recorded answer leaves history and position as they are and reports the
\* result of the recorded answer, whatever label it is clicked with.
C1_ResubmitIsIdempotent ==
    [][ (UserStep("submit-btn") /\ InProgress /\ Recorded(history, index) # {})
          => /\ history' = history
             /\ index' = index
             /\ ~raised'
             /\ \E k \in Recorded(history, index) : feedback' = ResultOf(history[k]) ]_vars

\* C2: in every reachable state no two entries of history carry the same position.
C2_OneEventPerPosition ==
    \A j, k \in 1..Len(history) :
        j # k => EventPosition(history[j]) # EventPosition(history[k])

\* C3: after a load, submit, advance and reveal never decrease position, and
\* position stays within 0..len(order), also for an empty question set.
C3_PositionMonotoneInRange ==
    [][ /\ (UserStep("submit-btn") \/ UserStep("next-btn") \/ UserStep("reveal-btn"))
             => index' >= index
        /\ 0 <= index' /\ index' <= Len(order') ]_vars

\* C4: n advances after a load of n >= 1 questions bring the session to
\* Complete (position = len(order)), where there is no current question.
C4_AdvancingCompletes ==
    (pending = {} /\ Len(order) >= 1 /\ nexts = Len(order))
        => /\ index = Len(order)
           /\ CurrentQuestion.options = {}
           /\ ~CurrentQuestion.raised

\* The message of a submit without a chosen label.
NoSelectionReported(f) ==
    f \in {Msg("Please select an answer first", "", ""), Msg("Please select an answer first!", "", "")}

\* C5: a submit with no chosen label at a position without a recorded answer
\* reports that nothing is selected and leaves questions, order, position and
\* history as they are.
C5_SubmitWithoutLabel ==
    [][ (UserStep("submit-btn") /\ trigger'.chosen = None /\ Recorded(history, index) = {})
          => /\ NoSelectionReported(feedback')
             /\ ~raised'
             /\ UNCHANGED stores ]_vars

\* C5 happens: an unanswered question, after an answered one, is submitted with no label.
C5_Witness ==
    /\ trigger.id = "submit-btn" /\ trigger.chosen = None
    /\ InProgress /\ index > 0
    /\ history # <<>> /\ Recorded(history, index) = {}
    /\ NoSelectionReported(feedback)


\* The question an event is about is questions[q]: app.py records the index,
\* app_simple.py the question's stem and answer.
EventRefersTo(e, q) ==
    IF app = "app" THEN e.q_idx = q
    ELSE e.question = At(questions, q).stem /\ e.answer = At(questions, q).answer

\* C6: a first submit with a label c in InProgress appends one event to the end
\* of history, with the current position, the question order[position], the
\* label c, and correct exactly when c is that question's answer; position,
\* order and questions stay as they are.
C6_FirstSubmitAppends ==
    [][ (UserStep("submit-btn") /\ trigger'.chosen # None /\ InProgress
           /\ Recorded(history, index) = {})
          => /\ ~raised'
             /\ Len(history') = Len(history) + 1
             /\ SubSeq(history', 1, Len(history)) = history
             /\ LET e == history'[Len(history')]
                IN  /\ EventPosition(e) = index
                    /\ EventRefersTo(e, At(order, index))
                    /\ EventChosen(e) = trigger'.chosen
                    /\ e.correct <=> (trigger'.chosen = CurrentRecord.answer)
             /\ UNCHANGED <<questions, order, index>> ]_vars

\* C6 happens: a wrong label is submitted for a question of a shuffled order,
\* after an answer at another position.
C6_Witness ==
    /\ trigger.id = "submit-btn" /\ trigger.chosen # None
    /\ InProgress /\ At(order, index) # index
    /\ Len(history) = 2
    /\ Recorded(history, index) = {2}
    /\ ~history[2].correct

\* A step in which a load runs by itself (not as one of Reset's two callbacks).
LoadStep ==
    tick' # tick /\ trigger'.id \in {"", "load-btn", "load-default-btn", "upload", "file-dropdown"}

\* C7: a load can run in every state in which the user can act, and leaves
\* position 0, an empty history and an order that is a permutation of
\* 0..len(questions)-1, the identity when shuffle is off.
C7_LoadResetsSession ==
    [][ /\ (Started /\ pending = {}) => ENABLED (LoadOrReset \/ LoadQuiz)
        /\ LoadStep
             => /\ index' = 0
                /\ history' = <<>>
                /\ Len(order') = Len(questions')
                /\ IsPermutation(order')
                /\ ~trigger'.shuffle => order' = range(Len(questions')) ]_vars

\* C7 happens: a file of two questions is loaded with shuffle on right after a
\* wrong answer was recorded, and the order is not the identity.
C7_Witness ==
    /\ trigger.id \in {"upload", "file-dropdown"} /\ trigger.shuffle
    /\ feedback.msg = "Incorrect. The correct answer is"
    /\ Len(questions) = 2 /\ order = <<1, 0>>
    /\ index = 0 /\ history = <<>>

\* C8 as stated: after a reset the questions are those loaded before it, the
\* order is the identity whatever the shuffle option, position is 0 and history
\* is empty.
C8_ResetKeepsQuestions ==
    [][ ResetDone
          => /\ \A req \in pending : questions' = req.questions
             /\ order' = range(Len(questions'))
             /\ index' = 0
             /\ history' = <<>> ]_vars

\* C8 amended: after a reset of app.py the questions are the built-in default
\* set, the order is a permutation of 0..n-1 that is the identity when the
\* shuffle option is off, position is 0 and history is empty.
C8_ResetLoadsDefaults ==
    [][ ResetDone
          => /\ questions' = DEFAULT_QUESTIONS
             /\ Len(order') = Len(questions')
             /\ IsPermutation(order')
             /\ ~trigger.shuffle => order' = range(Len(questions'))
             /\ index' = 0
             /\ history' = <<>> ]_vars

\* C8 happens: both callbacks of a Reset click with shuffle on have answered.
C8_Witness ==
    /\ trigger.id = "reset-btn" /\ trigger.shuffle /\ pending = {}
    /\ questions = DEFAULT_QUESTIONS
    /\ order # range(Len(questions))
    /\ index = 0 /\ history = <<>>
    /\ feedback = Msg("Reset", "", "")

\* C9: in Complete or Empty, currentQuestion reports no question, and submit
\* (with or without a label), advance and reveal raise no error and leave
\* history as it is.
C9_OutOfRangeNeverFatal ==
    [][ NothingToActOn
          => /\ CurrentQuestion.options = {} /\ ~CurrentQuestion.raised
             /\ (UserStep("submit-btn") \/ UserStep("next-btn") \/ UserStep("reveal-btn"))
                  => (~raised' /\ history' = history) ]_vars

\* C10: reveal in InProgress reports the answer label of
\* questions[order[position]] with that label's option text, and leaves
\* questions, order, position and history as they are.
C10_RevealShowsAnswer ==
    [][ (UserStep("reveal-btn") /\ InProgress)
          => /\ feedback' = Msg("The correct answer is", CurrentRecord.answer,
                                CurrentRecord.options[CurrentRecord.answer])
             /\ ~raised'
             /\ UNCHANGED stores ]_vars

\* C10 happens: the answer of a question of a shuffled order is revealed after
\* an answer was recorded.
C10_Witness ==
    /\ trigger.id = "reveal-btn"
    /\ InProgress /\ At(order, index) # index
    /\ history # <<>>
    /\ feedback = Msg("The correct answer is", CurrentRecord.answer,
                      CurrentRecord.options[CurrentRecord.answer])
    /\ At(questions, index).answer # CurrentRecord.answer

\* C11: between loads, the history before a submit, an advance or a reveal is
\* a prefix of the history after it, and a submit adds at most one event, at
\* the end (events are in submission order).
C11_HistoryAppendOnly ==
    [][ (UserStep("submit-btn") \/ UserStep("next-btn") \/ UserStep("reveal-btn"))
          => /\ Len(history') >= Len(history)
             /\ Len(history') <= Len(history) + 1
             /\ SubSeq(history', 1, Len(history)) = history
             /\ ~UserStep("submit-btn") => history' = history ]_vars

\* C11 happens: a second, different event was appended after the first, at the
\* next position.
C11_Witness ==
    /\ trigger.id = "submit-btn"
    /\ Len(history) = 2
    /\ EventPosition(history[1]) = 0 /\ EventPosition(history[2]) = 1
    /\ EventChosen(history[1]) # EventChosen(history[2])
    /\ EventChosen(history[2]) = trigger.chosen

\* What C12 says of the counts: no data for an empty history, else the correct
\* count is the number of correct events and correct + incorrect = len(history).
ScoreCountsDerived ==
    LET s == Score(history)
    IN  IF history = <<>>
        THEN s.nodata /\ s.counts = <<>> /\ s.running = <<>>
        ELSE /\ ~s.nodata
             /\ s.counts[1] = Cardinality(CorrectEvents(history))
             /\ s.counts[1] + s.counts[2] = Len(history)

C13_DedupedStemsDiffer ==
    (ParseReturned /\ call.dedupe)
        => \A i, j \in 1..Len(result.value) :
             i # j => Key(result.value[i]) # Key(result.value[j])

\* C13 happens: of three parsed blocks, two with stems that differ in case or
\* in a variant tag only, two are returned.
C13_Witness ==
    /\ ParseReturned /\ call.dedupe
    /\ Len(Scanned) = 3 /\ Len(result.value) = 2
    /\ \E i, j \in 1..3 : /\ i < j
                          /\ Scanned[i].stem_raw # Scanned[j].stem_raw
                          /\ Key(Scanned[i]) = Key(Scanned[j])

\* C14: of the parsed records with the same case-insensitive normalized stem
\* the one earliest in source-text order survives dedupe, whatever the
\* ordinals; a record whose stem is unique survives; with dedupe off no
\* record is removed.
C14_DedupeKeepsFirst ==
    (ParseReturned /\ NotTruncated) => ArePlacesOf(result.value, PostDedupe)

\* C14 happens: the later of two duplicates has the lower ordinal and is the
\* one removed, and a record with a stem of its own is kept.
C14_Witness ==
    /\ ParseReturned /\ call.dedupe /\ NotTruncated
    /\ Len(Scanned) = 3
    /\ Key(Scanned[1]) = Key(Scanned[3]) /\ Scanned[3].qnum < Scanned[1].qnum
    /\ Key(Scanned[2]) # Key(Scanned[1])
    /\ Elements(result.value) = {Scanned[1], Scanned[2]}

\* C15: the records returned are in non-decreasing order of ordinal, records
\* of the same ordinal are in their source order, and (when no cap cuts them)
\* they are the post-dedupe records, each once.
C15_SortedStable ==
    ParseReturned
        => /\ \A i, j \in 1..Len(result.value) :
                i < j => /\ result.value[i].qnum <= result.value[j].qnum
                         /\ result.value[i].qnum = result.value[j].qnum
                              => Place(Scanned, result.value[i]) < Place(Scanned, result.value[j])
           /\ NotTruncated => ArePlacesOf(result.value, PostDedupe)

\* C15 happens: a block numbered 2 is followed in the text by two numbered 1,
\* and is returned behind them, the two in their source order.
C15_Witness ==
    /\ ParseReturned
    /\ Len(Scanned) = 3
    /\ Scanned[1].qnum = 2 /\ Scanned[2].qnum = 1 /\ Scanned[3].qnum = 1
    /\ result.value = <<Scanned[2], Scanned[3], Scanned[1]>>

\* `blocks` after the sort of app_simple.py, line 89.
SortedBlocks == sort_by_qnum(deduped(Scanned, call.dedupe))

\* C16: app_simple.py's parse_quiz_text returns the first max_questions
\* records of the sorted set when that has more, else all of it; the length
\* is min(max_questions, number of post-dedupe records).
C16_CapKeepsLowestOrdinals ==
    (ParseReturned /\ call.variant = "simple")
        => /\ Len(result.value) = Min(call.max_questions, Cardinality(PostDedupe))
           /\ result.value = SubSeq(SortedBlocks, 1, Len(result.value))

\* C16 happens: three records are cut to two, and the record cut is the one
\* with the highest ordinal, the first in the text.
C16_Witness ==
    /\ ParseReturned /\ call.variant = "simple"
    /\ call.max_questions = 2 /\ Cardinality(PostDedupe) = 3
    /\ Scanned[1].qnum = 2 /\ Scanned[2].qnum = 1 /\ Scanned[3].qnum = 1
    /\ result.value = <<Scanned[2], Scanned[3]>>

\* C17: get_random_questions returns min(count, number of records) records,
\* each a record of its input, none taken more often than the input has it;
\* so does load_quiz of the post-dedupe records of a file, with count 50.
C17_SamplingBound ==
    /\ (call.fn = "get_random_questions" /\ result.returned)
         => /\ Len(result.value) = Min(call.count, Len(call.all_questions))
            /\ IsSampleOf(result.value, call.all_questions)
    /\ (call.fn = "load_quiz" /\ result.returned)
         => /\ Len(result.questions) = Min(SampleCount, Len(call.blocks))
            /\ IsSampleOf(result.questions, call.blocks)

\* C17 happens: two of three records were drawn, the third before the first.
C17_Witness ==
    /\ call.fn = "get_random_questions" /\ result.returned
    /\ Len(call.all_questions) = 3 /\ call.count = 2
    /\ call.all_questions[1] # call.all_questions[3]
    /\ result.value = <<call.all_questions[3], call.all_questions[1]>>

\* What C18 says of app_simple.py: a max_questions or a count that is not
\* smaller than the number of records raises nothing and returns the records
\* as they are.
OversizeIsNoOpInSimple ==
    /\ (Done("parse_quiz_text") /\ call.variant = "simple"
          /\ call.max_questions >= Len(SortedBlocks))
         => result.returned /\ result.value = SortedBlocks
    /\ (Done("get_random_questions") /\ call.count >= Len(call.all_questions))
         => result.returned /\ result.value = call.all_questions

\* C18 as stated: a sample or cap size that is not smaller than the number of
\* records never raises and returns the full set in the same order, also in
\* pick_unique_questions.
C18_OversizeIsNoOp ==
    /\ OversizeIsNoOpInSimple
    /\ (Done("pick_unique_questions") /\ call.k >= Len(call.questions))
         => result.returned /\ result.value = call.questions

\* C18 amended: so it is in app_simple.py; pick_unique_questions raises
\* ValueError for a k greater than the number of records, and for a k equal
\* to it returns all the records, in an order drawn at random.
C18_OversizeNoOpOrValueError ==
    /\ OversizeIsNoOpInSimple
    /\ (Done("pick_unique_questions") /\ call.k > Len(call.questions))
         => result.raised /\ result.error = "ValueError"
    /\ (Done("pick_unique_questions") /\ call.k = Len(call.questions))
         => /\ result.returned
            /\ Len(result.value) = Len(call.questions)
            /\ IsSampleOf(result.value, call.questions)

\* C18 happens: pick_unique_questions is asked for one record more than there are.
C18_Witness ==
    /\ call.fn = "pick_unique_questions" /\ Len(call.questions) >= 1
    /\ call.k = Len(call.questions) + 1
    /\ result = Raised("ValueError")

\* C19: no load_quiz both cuts the records of the file to a cap and then
\* replaces what is left by a random sample.
C19_CapOrSampleNotBoth ==
    (call.fn = "load_quiz" /\ result.returned)
        => ~ (/\ Len(result.all_questions) < Len(call.blocks)
              /\ Len(result.questions) < Len(result.all_questions))

\* C20: every record parse_quiz_text returns has its number, stem, four options
\* and answer from one block of the text, a block that has all four option
\* lines and a valid answer line.
C20_NoPartialRecords ==
    ParseReturned
        => \A r \in Elements(result.value) :
             \E i \in 1..Len(call.text) : IsBlockAt(r, call.text, i)

\* C21: in a text of well-formed blocks, a block whose answer line is written
\* in any letter case ('answer: b', 'ANSWER: B') is parsed into a record, and
\* the record's answer is the upper-case label.
C21_AnswerLineCaseInsensitive ==
    (ParseReturned /\ WellFormedText(call.text))
        => \A i \in 1..Len(call.text) :
             (WellFormedAt(call.text, i) /\ InOwnDialect(call.text[i]))
                 => \E r \in Elements(Scanned) :
                      r = RecordOf(call.text, i) /\ r.answer \in Labels

\* C22: a well-formed block gives a record with its declared number as
\* ordinal whether its first line starts with 'Q<digits>:', 'Q<digits>.',
\* '<digits>:' or '<digits>.', the answer line being a plain 'Answer: X'.
C22_BothDialectsAccepted ==
    (ParseReturned /\ WellFormedText(call.text))
        => \A i \in 1..Len(call.text) :
             (WellFormedAt(call.text, i) /\ ends_block(call.text[i + 5])
                /\ \A k \in 1..Len(call.text) :
                     call.text[k].kind = "Answer" => ends_block(call.text[k]))
                 => \E r \in Elements(Scanned) :
                      r = RecordOf(call.text, i) /\ r.qnum = call.text[i].num

\* C23: normalize_stem of a normalized stem is that normalized stem, also when
\* the removal of a '(variant ..)' annotation joins the text around it into a
\* new annotation.
C23_NormalizeStemIdempotent ==
    (call.fn = "normalize_stem" /\ result.returned) => result.again = result.value

\* C24: the stem of no record parse_quiz_text returns holds a '(variant ..)'
\* annotation, in any letter case.
C24_NoAnnotationInStem ==
    ParseReturned => \A r \in Elements(result.value) : ~ HasAnnotation(r.stem)

\* C25: every record parse_quiz_text returns has the four options A, B, C, D,
\* an answer that is one of them, and a stem that is not empty.
C25_RecordInvariant ==
    ParseReturned
        => \A r \in Elements(result.value) :
             /\ DOMAIN r.options = Labels
             /\ r.answer \in Labels
             /\ r.stem # <<>>

\* C26: when the primary scan has at least one match, the parsed sequence is
\* exactly the primary matches; when it has none, the parsed sequence is what
\* the recovery strategy finds, at most one record for each chunk of the text,
\* each a match within its chunk, in the order of the chunks.
C26_TwoPhaseParser ==
    ParseReturned
        => /\ PrimaryMatches # <<>> => Scanned = PrimaryMatches
           /\ PrimaryMatches = <<>>
                => \E from \in [1..Len(Scanned) -> ChunkStarts(call.text)] :
                     /\ \A i, j \in 1..Len(Scanned) : i < j => from[i] < from[j]
                     /\ \A i \in 1..Len(Scanned) :
                          \E k \in 1..Len(ChunkAt(call.text, from[i])) :
                              IsBlockAt(Scanned[i], ChunkAt(call.text, from[i]), k)

\* A text of two chunks in which the primary scan finds nothing was parsed.
C26_Witness ==
    /\ ParseReturned
    /\ PrimaryMatches = <<>>
    /\ Cardinality(ChunkStarts(call.text)) >= 2
    /\ Scanned = <<>>

\* C27: once one or both of the two callbacks of a Reset click of app.py have
\* answered, in either order, position is 0 and history is empty.
C27_ResetOrderIrrelevant ==
    (app = "app" /\ trigger.id = "reset-btn" /\ Cardinality(pending) < 2)
        => index = 0 /\ history = <<>>

\* A Reset was clicked at a later position with answers in history, and
\* main_update, sent that position and history, has answered after
\* load_or_reset.
C27_Witness ==
    /\ app = "app" /\ trigger.id = "reset-btn"
    /\ \E req \in pending :
         req.callback = "load_or_reset" /\ req.index > 0 /\ req.history # <<>>
    /\ Cardinality(pending) = 1
    /\ index = 0 /\ history = <<>>

\* C28: in every state of the app.py session every event of history has a
\* position idx with 0 <= idx < len(order) and a q_idx that is order[idx] and
\* an index of the loaded questions, and the results export raises no error and
\* has the stem of that loaded question in the event's row.
C28_HistoryIndicesValid ==
    app = "app"
        => \A k \in 1..Len(history) :
             /\ 0 <= history[k].idx /\ history[k].idx < Len(order)
             /\ history[k].q_idx = order[history[k].idx + 1]
             /\ 0 <= history[k].q_idx /\ history[k].q_idx < Len(questions)
             /\ ~ download_results(history, questions).raised
             /\ download_results(history, questions).rows[k].question
                  = questions[order[history[k].idx + 1] + 1].stem

\* An answer at a later position of a shuffled order is in history.
C28_Witness ==
    /\ app = "app"
    /\ \E k \in 1..Len(history) :
         history[k].idx > 0 /\ history[k].q_idx # history[k].idx

\* C29: in every state of the app_simple.py session history has at most
\* len(order) events, and the positions of its events do not decrease in the
\* order of submission.
C29_SimpleHistoryBounded ==
    app = "simple"
        => /\ Len(history) <= Len(order)
           /\ \A j, k \in 1..Len(history) : j < k => history[j].index <= history[k].index

\* Answers at two positions are in history, as many as the order is long.
C29_Witness ==
    /\ app = "simple"
    /\ Len(history) >= 2
    /\ Len(history) = Len(order)
    /\ history[1].index < history[2].index

\* C30: every load of app.py with shuffle on leaves the order that the number
\* of questions alone determines, the permutation of the fixed seed 42,
\* whatever was loaded, answered or advanced before.
C30_ShuffleIsDeterministic ==
    [][ (app = "app" /\ LoadStep /\ trigger'.shuffle)
          => order' = Seed42Order(Len(questions')) ]_vars

\* The default questions were loaded with shuffle on right after a correct
\* answer was recorded.
C30_Witness ==
    /\ app = "app"
    /\ trigger.id \in {"load-btn", "load-default-btn"} /\ trigger.shuffle
    /\ feedback.msg = "Correct! The answer is"
    /\ questions = DEFAULT_QUESTIONS /\ order = Seed42Order(3)

====
